---- MODULE Spec2Model ----
(***************************************************************************)
(* A model of src/pybind/ceph_argparse.py: the typed-argument validators,  *)
(* the signature loader (parse_funcsig / argdesc), the matcher (matchnum,  *)
(* validate, validate_one) and the command resolver (validate_command).    *)
(*                                                                         *)
(* Python strings are sequences of one-character strings, so that          *)
(* startswith, split, long() and the usage rendering are computed, not     *)
(* assumed.  Python objects that are mutated in place (descriptors, the    *)
(* token list) are values here; a call that works on the caller's object   *)
(* instead of a copy is modelled by an alias flag and a write-back.        *)
(***************************************************************************)
EXTENDS Integers, Sequences, FiniteSets, TLC

VARIABLES
    sigdict,        \* the command table: sequence of [sig |-> <<argdesc>>] in iteration order
    pc,             \* position of the running call ("idle" between calls)
    args,           \* the caller's token list
    verbose,        \* validate_command's verbose flag
    parsed_args,    \* [output_format, threshold] of the caller
    idx,            \* index of the loop of validate_command that is running
    best_match_cnt, \* validate_command: best score so far
    bestcmds,       \* validate_command: indices into sigdict of the best candidates
    found,          \* validate_command: signature found ( <<>> is Python's [] )
    valid_dict,     \* validate_command: structure of the last successful validate
    ret,            \* what the finished call returned
    exc,            \* the exception the finished call raised ("" if none)
    closest,        \* usage lines printed after 'no valid command found'
    frame,          \* activation record of a direct matchnum/validate call
    cmd,            \* index into sigdict of the signature a direct call works on
    wire,           \* parse_funcsig: the raw signature being loaded
    newsig,         \* parse_funcsig: descriptors built so far
    argnum,         \* parse_funcsig: loop counter
    intarg          \* CephInt under test: [range string, instance, token]

vars == <<sigdict, pc, args, verbose, parsed_args, idx, best_match_cnt, bestcmds,
          found, valid_dict, ret, exc, closest, frame, cmd, wire, newsig, argnum,
          intarg>>

resolver_vars == <<verbose, parsed_args, idx, best_match_cnt, bestcmds, found,
                   valid_dict, closest>>
loader_vars == <<wire, newsig, argnum>>

----------------------------------------------------------------------------
(* Bounds of the model *)

\* longest token list of the general inputs
MaxArgs == 3
\* most integer tokens after "pool mypool" in the repeated-argument inputs
MaxInts == 3
\* longest raw signature handed to parse_funcsig
MaxSigLen == 2
\* range bounds of CephInt under test are drawn from -MaxRange..MaxRange
MaxRange == 2

----------------------------------------------------------------------------
(* Python strings and values *)

DigitChars == {"0", "1", "2", "3", "4", "5", "6", "7", "8", "9"}
DigitVal == ("0" :> 0) @@ ("1" :> 1) @@ ("2" :> 2) @@ ("3" :> 3) @@ ("4" :> 4) @@
            ("5" :> 5) @@ ("6" :> 6) @@ ("7" :> 7) @@ ("8" :> 8) @@ ("9" :> 9)
DigitChar == <<"0", "1", "2", "3", "4", "5", "6", "7", "8", "9">>

\* t.startswith(s)
startswith(t, s) == Len(s) <= Len(t) /\ SubSeq(t, 1, Len(s)) = s

\* s.split(sep) for a one-character separator
RECURSIVE split_from(_, _, _)
split_from(s, sep, cur) ==
    IF s = <<>> THEN <<cur>>
    ELSE IF Head(s) = sep THEN <<cur>> \o split_from(Tail(s), sep, <<>>)
    ELSE split_from(Tail(s), sep, Append(cur, Head(s)))
split(s, sep) == split_from(s, sep, <<>>)

\* sep.join(l)
RECURSIVE join(_, _)
join(sep, l) ==
    IF l = <<>> THEN <<>>
    ELSE IF Len(l) = 1 THEN l[1]
    ELSE l[1] \o sep \o join(sep, Tail(l))

RECURSIVE digits_value(_, _)
digits_value(s, acc) ==
    IF s = <<>> THEN acc ELSE digits_value(Tail(s), 10 * acc + DigitVal[Head(s)])

\* long(s), base 10: an optional sign and one or more decimal digits; anything
\* else (among it the 0x form) is a ValueError.
long(s) ==
    LET signed == Len(s) > 0 /\ s[1] \in {"+", "-"}
        body   == IF signed THEN Tail(s) ELSE s
        ok     == Len(body) > 0 /\ \A i \in 1..Len(body) : body[i] \in DigitChars
        mag    == digits_value(body, 0)
    IN  IF ok THEN [exc |-> "", v |-> IF signed /\ s[1] = "-" THEN 0 - mag ELSE mag]
        ELSE [exc |-> "ValueError", v |-> 0]

\* '{0}'.format(v) for a long
RECURSIVE nat_str(_)
nat_str(n) == IF n < 10 THEN <<DigitChar[n + 1]>>
              ELSE Append(nat_str(n \div 10), DigitChar[(n % 10) + 1])
format_long(v) == IF v < 0 THEN <<"-">> \o nat_str(0 - v) ELSE nat_str(v)

\* Python values: None, a str, a long, a list of str/long
PyNone == [t |-> "None", s |-> <<>>, v |-> 0, l |-> <<>>]
PyStr(s) == [t |-> "str", s |-> s, v |-> 0, l |-> <<>>]
PyLong(v) == [t |-> "long", s |-> <<>>, v |-> v, l |-> <<>>]
PyList(l) == [t |-> "list", s |-> <<>>, v |-> 0, l |-> l]

\* the empty dict, and d[k] = v
EmptyDict == [k \in {} |-> PyNone]
dict_set(d, k, v) == [x \in DOMAIN d \cup {k} |-> IF x = k THEN v ELSE d[x]]

\* copy.deepcopy(obj): a fresh object equal to obj; alias tells whether writes
\* to the result are writes to obj
copy_alias(obj) == [alias |-> TRUE, obj |-> obj]
copy_deepcopy(obj) == [alias |-> FALSE, obj |-> obj]

\* args[:]: a fresh list
slice_copy(l) == [alias |-> FALSE, obj |-> l]

----------------------------------------------------------------------------
(* The environment of the filesystem probes *)

p_sock == <<"/", "s">>
p_file == <<"/", "f">>

\* os.stat(s): the scratch filesystem holds one socket and one regular file
os_stat(s) ==
    IF s = p_sock THEN [exc |-> "", issock |-> TRUE]
    ELSE IF s = p_file THEN [exc |-> "", issock |-> FALSE]
    ELSE [exc |-> "OSError", issock |-> FALSE]

----------------------------------------------------------------------------
(* The argument types.  An instance is [prefix, range, val]: the parameters *)
(* of CephPrefix and CephInt and the value of the last successful valid().  *)
(* valid returns [exc, inst]: the exception raised ("" if none) and the     *)
(* instance afterwards.                                                     *)

NewInstance == [prefix |-> <<>>, range |-> <<>>, val |-> PyNone]

\* CephArgtype.valid
CephArgtype_valid(inst, s, partial) ==
    [exc |-> "", inst |-> [inst EXCEPT !.val = PyStr(s)]]

\* CephInt.__init__: range is '' or 'min' or 'min|max'
RECURSIVE map_long(_)
map_long(l) ==
    IF l = <<>> THEN [exc |-> "", l |-> <<>>]
    ELSE LET h == long(Head(l))
             r == map_long(Tail(l))
         IN  IF h.exc # "" THEN [exc |-> h.exc, l |-> <<>>]
             ELSE IF r.exc # "" THEN r
             ELSE [exc |-> "", l |-> <<h.v>> \o r.l]
CephInt_init(range) ==
    IF range = <<>> THEN [exc |-> "", inst |-> NewInstance]
    ELSE LET m == map_long(split(range, "|"))
         IN  [exc |-> m.exc, inst |-> [NewInstance EXCEPT !.range = m.l]]

\* CephInt.valid
CephInt_valid_keepstr(inst, s, partial) ==
    LET r == long(s)
    IN  IF r.exc # "" THEN [exc |-> "ArgumentValid", inst |-> inst]
        ELSE [exc |-> "", inst |-> [inst EXCEPT !.val = PyStr(s)]]
CephInt_valid(inst, s, partial) ==
    LET r == long(s)
    IN  IF r.exc # "" THEN [exc |-> "ArgumentValid", inst |-> inst]
        ELSE IF Len(inst.range) = 2 /\ (r.v < inst.range[1] \/ r.v > inst.range[2])
        THEN [exc |-> "ArgumentValid", inst |-> inst]
        ELSE IF Len(inst.range) = 1 /\ r.v < inst.range[1]
        THEN [exc |-> "ArgumentValid", inst |-> inst]
        ELSE [exc |-> "", inst |-> [inst EXCEPT !.val = PyLong(r.v)]]

\* CephInt.__str__
CephInt_str(inst) ==
    LET r == IF Len(inst.range) = 1
             THEN <<"[">> \o format_long(inst.range[1]) \o <<"-", "]">>
             ELSE IF Len(inst.range) = 2
             THEN <<"[">> \o format_long(inst.range[1]) \o <<"-">>
                  \o format_long(inst.range[2]) \o <<"]">>
             ELSE <<>>
    IN  <<"<", "i", "n", "t">> \o r \o <<">">>

\* CephSocketpath.valid: os.stat is not guarded, so its OSError leaves valid
CephSocketpath_valid(inst, s, partial) ==
    LET st == os_stat(s)
    IN  IF st.exc # "" THEN [exc |-> st.exc, inst |-> inst]
        ELSE IF ~st.issock THEN [exc |-> "ArgumentValid", inst |-> inst]
        ELSE [exc |-> "", inst |-> [inst EXCEPT !.val = PyStr(s)]]

\* CephPrefix.valid
CephPrefix_valid(inst, s, partial) ==
    IF partial
    THEN IF startswith(inst.prefix, s)
         THEN [exc |-> "", inst |-> [inst EXCEPT !.val = PyStr(s)]]
         ELSE [exc |-> "ArgumentPrefix", inst |-> inst]
    ELSE IF s = inst.prefix
         THEN [exc |-> "", inst |-> [inst EXCEPT !.val = PyStr(s)]]
         ELSE [exc |-> "ArgumentPrefix", inst |-> inst]

\* desc.instance.valid(word, partial): dispatch on the class of the instance
instance_valid(t, inst, s, partial) ==
    CASE t = "CephPrefix" -> CephPrefix_valid(inst, s, partial)
      [] t = "CephInt" -> CephInt_valid(inst, s, partial)
      [] t = "CephSocketpath" -> CephSocketpath_valid(inst, s, partial)
      [] t = "CephPoolname" -> CephArgtype_valid(inst, s, partial)
      [] OTHER -> [exc |-> "AttributeError", inst |-> inst]

\* str(instance)
instance_str(t, inst) ==
    CASE t = "CephPrefix" -> inst.prefix
      [] t = "CephInt" -> CephInt_str(inst)
      [] t = "CephSocketpath" ->
            <<"<", "a", "d", "m", "i", "n", "-", "s", "o", "c", "k", "e", "t",
              "-", "p", "a", "t", "h", ">">>
      [] t = "CephPoolname" -> <<"<", "p", "o", "o", "l", "n", "a", "m", "e", ">">>
      [] OTHER -> <<"<", "?", ">">>

----------------------------------------------------------------------------
(* Argument descriptors and the signature loader *)

\* numseen of a descriptor on which no attempt has set the attribute
NoCursor == -1

\* globals() of the module: what a type name of the wire data is looked up in
ArgTypeNames == {"CephArgtype", "CephInt", "CephFloat", "CephString", "CephSocketpath",
                 "CephIPAddr", "CephEntityAddr", "CephPoolname", "CephObjectname",
                 "CephPgid", "CephName", "CephOsdName", "CephChoices", "CephFilepath",
                 "CephFragment", "CephUUID", "CephPrefix"}
ExceptionNames == {"ArgumentError", "ArgumentNumber", "ArgumentFormat", "ArgumentValid",
                   "ArgumentPrefix", "JsonFormat"}
ModuleNames == {"copy", "json", "os", "socket", "stat", "sys", "types", "uuid"}
FunctionNames == {"concise_sig", "parse_funcsig", "parse_json_funcsigs", "validate_one",
                  "matchnum", "validate", "validate_command", "send_command",
                  "json_command"}
globals_type(name) ==
    IF name \in ArgTypeNames \cup ExceptionNames \cup {"argdesc"} THEN "TypeType"
    ELSE IF name \in ModuleNames THEN "ModuleType"
    ELSE IF name \in FunctionNames THEN "FunctionType"
    ELSE "absent"

\* self.t(**self.typeargs): kw is [prefix, range], a key being passed when its
\* value is not the empty string.  The classes without an __init__ of their own
\* take any keywords (CephArgtype.__init__, CephChoices.__init__); the range of
\* a CephFloat is written with integers here.
construct(t, kw) ==
    LET keys == {k \in {"prefix", "range"} : kw[k] # <<>>}
    IN  CASE t = "CephPrefix" ->
               IF keys \subseteq {"prefix"}
               THEN [exc |-> "", inst |-> [NewInstance EXCEPT !.prefix = kw.prefix]]
               ELSE [exc |-> "TypeError", inst |-> NewInstance]
          [] t \in {"CephInt", "CephFloat"} ->
               IF keys \subseteq {"range"} THEN CephInt_init(kw.range)
               ELSE [exc |-> "TypeError", inst |-> NewInstance]
          [] t = "CephString" ->
               IF keys = {} THEN [exc |-> "", inst |-> NewInstance]
               ELSE [exc |-> "TypeError", inst |-> NewInstance]
          [] t \in ArgTypeNames \ {"CephPrefix", "CephInt", "CephFloat", "CephString"} ->
               [exc |-> "", inst |-> NewInstance]
          [] t \in ExceptionNames ->
               IF keys = {} THEN [exc |-> "", inst |-> NewInstance]
               ELSE [exc |-> "TypeError", inst |-> NewInstance]
          [] OTHER -> [exc |-> "TypeError", inst |-> NewInstance]

\* argdesc.__init__(t, name, n, req, **kwargs), t a class; n is the string form
\* of the wire value ('n', 'N' or a number)
argdesc(t, name, n, req, kwargs) ==
    LET isN == n \in {<<"n">>, <<"N">>}
        cnt == IF isN THEN [exc |-> "", v |-> 1] ELSE long(n)
        ins == construct(t, kwargs)
    IN  IF cnt.exc # "" THEN [exc |-> cnt.exc, desc |-> <<>>]
        ELSE IF ins.exc # "" THEN [exc |-> ins.exc, desc |-> <<>>]
        ELSE [exc |-> "",
              desc |-> [t |-> t, name |-> name, N |-> isN, n |-> cnt.v, req |-> req,
                        numseen |-> NoCursor, instance |-> ins.inst]]

\* A raw signature element: a bare string (kind "str") or an object (kind
\* "dict") with type, name, n, req and the type parameter range.
WireStr(s) == [kind |-> "str", str |-> s, hastype |-> FALSE, type |-> "", name |-> "",
               n |-> <<"1">>, req |-> TRUE, range |-> <<>>]
WireArg(type, name, n, req, range) ==
    [kind |-> "dict", str |-> <<>>, hastype |-> TRUE, type |-> type, name |-> name,
     n |-> n, req |-> req, range |-> range]

\* One iteration of the loop of parse_funcsig: the descriptor built from desc,
\* or the exception raised
parse_desc(desc) ==
    IF desc.kind = "str"
    THEN argdesc("CephPrefix", "prefix", <<"1">>, TRUE,
                 [prefix |-> desc.str, range |-> <<>>])
    ELSE IF ~desc.hastype THEN [exc |-> "JsonFormat", desc |-> <<>>]
    ELSE IF globals_type(desc.type) # "TypeType" THEN [exc |-> "JsonFormat", desc |-> <<>>]
    ELSE argdesc(desc.type, desc.name, desc.n, desc.req,
                 [prefix |-> <<>>, range |-> desc.range])

RECURSIVE parse_funcsig_from(_, _)
parse_funcsig_from(sig, acc) ==
    IF sig = <<>> THEN [exc |-> "", sig |-> acc]
    ELSE LET r == parse_desc(Head(sig))
         IN  IF r.exc # "" THEN [exc |-> r.exc, sig |-> <<>>]
             ELSE parse_funcsig_from(Tail(sig), Append(acc, r.desc))
parse_funcsig(sig) == parse_funcsig_from(sig, <<>>)

\* argdesc.helpstr
helpstr(desc) ==
    LET chunk == IF desc.t = "CephString"
                 THEN <<"<">> \o <<desc.name>> \o <<">">>
                 ELSE instance_str(desc.t, desc.instance)
        s1 == IF desc.N THEN chunk \o <<" ", "[">> \o chunk \o <<".", ".", ".", "]">>
              ELSE chunk
    IN  IF ~desc.req THEN <<"{">> \o s1 \o <<"}">> ELSE s1

\* concise_sig
RECURSIVE map_helpstr(_)
map_helpstr(sig) ==
    IF sig = <<>> THEN <<>> ELSE <<helpstr(Head(sig))>> \o map_helpstr(Tail(sig))
concise_sig(sig) == join(<<" ">>, map_helpstr(sig))

----------------------------------------------------------------------------
(* The matcher: validate_one, matchnum, validate.  A call is an activation *)
(* record (frame); one step is one pass of the for loop header ("for") or  *)
(* one evaluation of the while condition with the loop body ("while").     *)

\* validate_one(word, desc, partial): [exc, desc afterwards]
validate_one(word, desc, partial) ==
    LET r == instance_valid(desc.t, desc.instance, word, partial)
    IN  IF r.exc # "" THEN [exc |-> r.exc, desc |-> desc]
        ELSE [exc |-> "",
              desc |-> [desc EXCEPT !.instance = r.inst,
                                    !.numseen = desc.numseen + 1,
                                    !.n = IF desc.N THEN desc.numseen + 2 ELSE desc.n]]

NoFrame == [fn |-> "", partial |-> FALSE, salias |-> FALSE, walias |-> FALSE,
            mysig |-> <<>>, words |-> <<>>, di |-> 1, at |-> "none", matchcnt |-> 0,
            d |-> EmptyDict, exc |-> "", iters |-> 0]

\* entry of matchnum / validate: words = args[:], mysig = copy.deepcopy(signature)
enter(fn, a, signature, partial) ==
    LET w == slice_copy(a)
        c == copy_deepcopy(signature)
    IN  [NoFrame EXCEPT !.fn = fn, !.partial = partial, !.salias = c.alias,
                        !.walias = w.alias, !.mysig = c.obj, !.words = w.obj,
                        !.at = "for"]

\* the caller's signature and token list as the frame leaves them
signature_after(f, signature) == IF f.salias THEN f.mysig ELSE signature
args_after(f, a) == IF f.walias THEN f.words ELSE a

\* for desc in mysig: setattr(desc, 'numseen', 0)
for_header(f) ==
    IF f.di > Len(f.mysig) THEN [f EXCEPT !.at = "return"]
    ELSE [f EXCEPT !.mysig[f.di].numseen = 0, !.at = "while"]

\* words.insert(0, word): the popped token goes back to the front of the list
list_insert0_drop(l, x) == l
list_insert0(l, x) == <<x>> \o l

\* break: the while loop of the descriptor is left, the for loop goes on
break_stay(f) == f
break_loop(f) == [f EXCEPT !.di = @ + 1, !.at = "for"]

\* one step of matchnum
matchnum_step(f) ==
    IF f.at = "for" THEN for_header(f)
    ELSE LET desc == f.mysig[f.di]
         IN  IF ~(desc.numseen < desc.n)
             THEN [f EXCEPT !.matchcnt = IF desc.req THEN @ + 1 ELSE @,
                            !.di = @ + 1, !.at = "for"]
             ELSE IF f.words = <<>>
             THEN [f EXCEPT !.at = "return", !.iters = @ + 1]
             ELSE LET word == Head(f.words)
                      rest == Tail(f.words)
                      r == validate_one(word, desc, f.partial)
                  IN  IF r.exc # ""
                      THEN IF ~desc.req
                           THEN break_loop([f EXCEPT !.words = list_insert0(rest, word),
                                                     !.iters = @ + 1])
                           ELSE [f EXCEPT !.words = rest, !.at = "return",
                                          !.iters = @ + 1]
                      ELSE [f EXCEPT !.mysig[f.di] = r.desc, !.words = rest,
                                     !.iters = @ + 1]

\* lines 764-775 of validate: the value of desc goes into d
accumulate_front(d, desc) ==
    LET val == desc.instance.val
        name == desc.name
    IN  IF name \notin DOMAIN d
        THEN [exc |-> "", d |-> dict_set(d, name, IF desc.N THEN PyList(<<val>>) ELSE val)]
        ELSE IF desc.N
        THEN [exc |-> "", d |-> dict_set(d, name, PyList(<<val>> \o d[name].l))]
        ELSE IF desc.t = "CephPrefix"
        THEN [exc |-> "", d |-> dict_set(d, name, PyStr(val.s \o <<" ">> \o d[name].s))]
        ELSE [exc |-> "", d |-> dict_set(d, name, val)]
accumulate(d, desc) ==
    LET val == desc.instance.val
        name == desc.name
    IN  IF desc.N
        THEN IF name \in DOMAIN d
             THEN IF d[name].t = "list"
                  THEN [exc |-> "", d |-> dict_set(d, name, PyList(Append(d[name].l, val)))]
                  ELSE [exc |-> "TypeError", d |-> d]
             ELSE [exc |-> "", d |-> dict_set(d, name, PyList(<<val>>))]
        ELSE IF desc.t = "CephPrefix" /\ name \in DOMAIN d
        THEN IF d[name].t = "str" /\ val.t = "str"
             THEN [exc |-> "", d |-> dict_set(d, name, PyStr(d[name].s \o <<" ">> \o val.s))]
             ELSE IF d[name].t = "list" /\ val.t = "str"
             THEN [exc |-> "",
                   d |-> dict_set(d, name,
                            PyList(d[name].l \o <<PyStr(<<" ">>)>>
                                   \o [i \in 1..Len(val.s) |-> PyStr(<<val.s[i]>>)]))]
             ELSE [exc |-> "TypeError", d |-> d]
        ELSE [exc |-> "", d |-> dict_set(d, name, val)]

\* lines 739-749: the tokens ran out at desc; has it seen too few of them?
too_few_any(desc) ==
    (desc.N /\ desc.numseen < 1) \/ (~desc.N /\ desc.numseen < desc.n)
too_few(desc) ==
    desc.req /\ ((desc.N /\ desc.numseen < 1) \/ (~desc.N /\ desc.numseen < desc.n))

\* one step of validate
validate_step(f) ==
    IF f.at = "for" THEN for_header(f)
    ELSE LET desc == f.mysig[f.di]
             fail(e) == IF f.partial THEN [f EXCEPT !.at = "return", !.iters = @ + 1]
                        ELSE [f EXCEPT !.at = "raise", !.exc = e, !.iters = @ + 1]
         IN  IF ~(desc.numseen < desc.n)
             THEN [f EXCEPT !.di = @ + 1, !.at = "for"]
             ELSE IF f.words = <<>>
             THEN IF too_few(desc) THEN fail("ArgumentNumber")
                  ELSE break_loop([f EXCEPT !.iters = @ + 1])
             ELSE LET word == Head(f.words)
                      rest == Tail(f.words)
                      r == validate_one(word, desc, FALSE)
                      a == accumulate(f.d, r.desc)
                  IN  IF r.exc # ""
                      THEN IF ~desc.req
                           THEN break_loop([f EXCEPT !.words = list_insert0(rest, word),
                                                     !.iters = @ + 1])
                           ELSE [fail(r.exc) EXCEPT !.words = rest]
                      ELSE IF a.exc # ""
                      THEN [f EXCEPT !.mysig[f.di] = r.desc, !.words = rest,
                                     !.at = "raise", !.exc = a.exc, !.iters = @ + 1]
                      ELSE [f EXCEPT !.mysig[f.di] = r.desc, !.words = rest,
                                     !.d = a.d, !.iters = @ + 1]

frame_step(f) == IF f.fn = "matchnum" THEN matchnum_step(f) ELSE validate_step(f)
finished(f) == f.at \in {"return", "raise"}

RECURSIVE run_frame(_)
run_frame(f) == IF finished(f) THEN f ELSE run_frame(frame_step(f))

\* matchnum(args, signature, partial) and validate(args, signature, partial) run
\* to their end: the final frame (matchcnt, or d / exc)
matchnum(a, signature, partial) == run_frame(enter("matchnum", a, signature, partial))
validate(a, signature, partial) == run_frame(enter("validate", a, signature, partial))

----------------------------------------------------------------------------
(* Inputs: tokens, raw signatures, token lists *)

t_pool == <<"p", "o", "o", "l">>
t_my == <<"m", "y">>
t_mypool == <<"m", "y", "p", "o", "o", "l">>
t_1 == <<"1">>
t_2 == <<"2">>
t_3 == <<"3">>

\* ["pool", {"type":"CephPoolname","name":"pool"}, {"type":"CephInt","name":"n","n":"N","req":false}]
w_pool_n == <<WireStr(t_pool), WireArg("CephPoolname", "pool", <<"1">>, TRUE, <<>>),
              WireArg("CephInt", "n", <<"N">>, FALSE, <<>>)>>
w_pool == <<WireStr(t_pool), WireArg("CephPoolname", "pool", <<"1">>, TRUE, <<>>)>>
w_pool_mypool == <<WireStr(t_pool), WireStr(t_mypool)>>
w_size2 == <<WireStr(t_pool), WireArg("CephInt", "size", <<"2">>, TRUE, <<>>)>>
w_ids == <<WireStr(t_pool), WireStr(t_mypool),
           WireArg("CephInt", "ids", <<"N">>, TRUE, <<>>)>>
w_path == <<WireStr(t_pool), WireArg("CephSocketpath", "path", <<"1">>, TRUE, <<>>)>>
w_k_name == <<WireStr(t_pool), WireArg("CephInt", "k", <<"1">>, FALSE, <<>>),
              WireArg("CephPoolname", "name", <<"1">>, TRUE, <<>>)>>

w_pool_opt == <<WireStr(t_pool), WireArg("CephPoolname", "name", <<"1">>, FALSE, <<>>)>>

WirePool == {w_pool_n, w_pool, w_pool_mypool, w_size2, w_ids, w_path, w_k_name, w_pool_opt}

\* the loaded signatures
SigPool == {parse_funcsig(w).sig : w \in WirePool}

SeqsUpTo(S, n) == UNION {[1..k -> S] : k \in 0..n}

Vocab == {t_pool, t_my, t_mypool, t_1, p_sock}
IntWords == {t_1, t_2, t_3}

\* token lists: every list of up to MaxArgs words, and "pool mypool" followed by
\* up to MaxInts integers
Inputs == SeqsUpTo(Vocab, MaxArgs)
          \cup {<<t_pool, t_mypool>> \o t : t \in SeqsUpTo(IntWords, MaxInts)}

----------------------------------------------------------------------------
(* Direct calls of matchnum and validate on one loaded signature *)

NoParsedArgs == [output_format |-> <<>>, threshold |-> 0]
NoIntArg == [range |-> <<>>, instance |-> NewInstance, token |-> <<>>]

ResolverIdle ==
    /\ verbose = FALSE
    /\ parsed_args = NoParsedArgs
    /\ idx = 0
    /\ best_match_cnt = 0
    /\ bestcmds = <<>>
    /\ found = <<>>
    /\ valid_dict = EmptyDict
    /\ closest = <<>>
    /\ ret = [isnone |-> TRUE, d |-> EmptyDict]
    /\ exc = ""

LoaderIdle == wire = <<>> /\ newsig = <<>> /\ argnum = 0

InitMatcher ==
    /\ sigdict \in {<<[sig |-> sg]>> : sg \in SigPool}
    /\ cmd = 1
    /\ pc = "idle"
    /\ args = <<>>
    /\ frame = NoFrame
    /\ ResolverIdle
    /\ LoaderIdle
    /\ intarg = NoIntArg

call_matchnum ==
    /\ pc = "idle"
    /\ \E a \in Inputs, partial \in BOOLEAN :
          /\ args' = a
          /\ frame' = enter("matchnum", a, sigdict[cmd].sig, partial)
    /\ pc' = "matcher"
    /\ UNCHANGED <<sigdict, cmd, resolver_vars, ret, exc, loader_vars, intarg>>

call_validate ==
    /\ pc = "idle"
    /\ \E a \in Inputs, partial \in BOOLEAN :
          /\ args' = a
          /\ frame' = enter("validate", a, sigdict[cmd].sig, partial)
    /\ pc' = "matcher"
    /\ UNCHANGED <<sigdict, cmd, resolver_vars, ret, exc, loader_vars, intarg>>

matcher_step ==
    /\ pc = "matcher"
    /\ LET f == frame_step(frame)
       IN  /\ frame' = f
           /\ sigdict' = [sigdict EXCEPT ![cmd].sig = signature_after(f, @)]
           /\ args' = args_after(f, args)
           /\ pc' = IF finished(f) THEN "done" ELSE "matcher"
    /\ UNCHANGED <<cmd, resolver_vars, ret, exc, loader_vars, intarg>>

\* the caller takes the result; the frame is gone
matcher_return ==
    /\ pc = "done"
    /\ pc' = "idle"
    /\ frame' = NoFrame
    /\ args' = <<>>
    /\ UNCHANGED <<sigdict, cmd, resolver_vars, ret, exc, loader_vars, intarg>>

NextMatcher == call_matchnum \/ call_validate \/ matcher_step \/ matcher_return

SpecMatcher == InitMatcher /\ [][NextMatcher]_vars

\* a call that has begun keeps running: the interpreter executes the next
\* statement of matchnum / validate until the function returns or raises
SpecMatcherFair == SpecMatcher /\ WF_vars(matcher_step)

----------------------------------------------------------------------------
(* The command resolver: validate_command *)

\* bestcmds[:10]
ClosestShown == 10

\* what validate_command returns: None or a dict
RetNone == [isnone |-> TRUE, d |-> EmptyDict]
RetDict(d) == [isnone |-> FALSE, d |-> d]

\* the subclasses of ArgumentError
ArgumentErrors == {"ArgumentError", "ArgumentNumber", "ArgumentFormat", "ArgumentValid",
                   "ArgumentPrefix"}

t_json == <<"j", "s", "o", "n">>

\* the caller's options: none, or an output format and a threshold
ParsedArgs == {NoParsedArgs, [output_format |-> t_json, threshold |-> 1]}

\* command tables: one signature, or two different ones in either order
Tables == {<<[sig |-> a]>> : a \in SigPool}
          \cup {<<[sig |-> p[1]], [sig |-> p[2]]>> :
                    p \in {q \in SigPool \X SigPool : q[1] # q[2]}}

Init ==
    /\ sigdict \in Tables
    /\ cmd = 1
    /\ pc = "idle"
    /\ args = <<>>
    /\ frame = NoFrame
    /\ verbose = FALSE
    /\ parsed_args = NoParsedArgs
    /\ idx = 0
    /\ best_match_cnt = 0
    /\ bestcmds = <<>>
    /\ found = <<>>
    /\ valid_dict = EmptyDict
    /\ closest = <<>>
    /\ ret = RetNone
    /\ exc = ""
    /\ LoaderIdle
    /\ intarg = NoIntArg

\* validate_command(parsed_args, sigdict, args, verbose): lines 784-789; with no
\* token the function falls off its end and returns None
call_validate_command ==
    /\ pc = "idle"
    /\ \E a \in SeqsUpTo(Vocab, MaxArgs), v \in BOOLEAN, pa \in ParsedArgs :
          /\ args' = a
          /\ verbose' = v
          /\ parsed_args' = pa
          /\ pc' = IF a = <<>> THEN "done" ELSE "rank"
    /\ found' = <<>>
    /\ valid_dict' = EmptyDict
    /\ best_match_cnt' = 0
    /\ bestcmds' = <<>>
    /\ idx' = 1
    /\ ret' = RetNone
    /\ exc' = ""
    /\ closest' = <<>>
    /\ UNCHANGED <<sigdict, cmd, frame, loader_vars, intarg>>

\* lines 794-806: the score of candidate i against the best so far; the result
\* is <<best_match_cnt, bestcmds>>
rank_update_keep(best, cmds, matched, i) ==
    IF matched >= best THEN <<matched, Append(cmds, i)>> ELSE <<best, cmds>>
rank_update(best, cmds, matched, i) ==
    IF matched > best THEN <<matched, <<i>> >>
    ELSE IF matched = best THEN <<best, Append(cmds, i)>>
    ELSE <<best, cmds>>

\* one pass of the ranking loop, lines 791-806
rank_step ==
    /\ pc = "rank"
    /\ idx <= Len(sigdict)
    /\ LET f == matchnum(args, sigdict[idx].sig, TRUE)
           u == rank_update(best_match_cnt, bestcmds, f.matchcnt, idx)
       IN  /\ sigdict' = [sigdict EXCEPT ![idx].sig = signature_after(f, @)]
           /\ args' = args_after(f, args)
           /\ best_match_cnt' = u[1]
           /\ bestcmds' = u[2]
    /\ IF idx = Len(sigdict) THEN pc' = "revalidate" /\ idx' = 1
       ELSE pc' = "rank" /\ idx' = idx + 1
    /\ UNCHANGED <<cmd, verbose, parsed_args, found, valid_dict, ret, exc, closest,
                   frame, loader_vars, intarg>>

\* one pass of the loop over bestcmds, lines 812-833: the break leaves the inner
\* loop over the one value of cmdsig, and the outer loop goes on
revalidate_step ==
    /\ pc = "revalidate"
    /\ idx <= Len(bestcmds)
    /\ LET c == bestcmds[idx]
           f == validate(args, sigdict[c].sig, verbose)
           sig == signature_after(f, sigdict[c].sig)
       IN  /\ sigdict' = [sigdict EXCEPT ![c].sig = sig]
           /\ args' = args_after(f, args)
           /\ IF f.exc = ""
              THEN valid_dict' = f.d /\ found' = sig /\ pc' = "revalidate" /\ exc' = ""
              ELSE IF f.exc \in ArgumentErrors
              THEN UNCHANGED <<valid_dict, found, pc, exc>>
              ELSE pc' = "raised" /\ exc' = f.exc /\ UNCHANGED <<valid_dict, found>>
    /\ idx' = idx + 1
    /\ UNCHANGED <<cmd, verbose, parsed_args, best_match_cnt, bestcmds, ret, closest,
                   frame, loader_vars, intarg>>

\* lines 842-846: the caller's options go into the structure
merge_options(d, pa) ==
    LET d1 == IF pa.output_format # <<>>
              THEN dict_set(d, "format", PyStr(pa.output_format))
              ELSE d
    IN  IF pa.threshold # 0 THEN dict_set(d1, "threshold", PyLong(pa.threshold)) ELSE d1

\* lines 835-848: no candidate found, or the merge of format and threshold
return_step ==
    /\ pc = "revalidate"
    /\ idx > Len(bestcmds)
    /\ IF found = <<>>
       THEN /\ closest' = [i \in 1..(IF Len(bestcmds) < ClosestShown THEN Len(bestcmds)
                                     ELSE ClosestShown) |->
                              concise_sig(sigdict[bestcmds[i]].sig)]
            /\ ret' = RetNone
            /\ UNCHANGED valid_dict
       ELSE LET d2 == merge_options(valid_dict, parsed_args)
            IN  /\ valid_dict' = d2
                /\ ret' = RetDict(d2)
                /\ UNCHANGED closest
    /\ pc' = "done"
    /\ UNCHANGED <<sigdict, cmd, args, verbose, parsed_args, idx, best_match_cnt,
                   bestcmds, found, exc, frame, loader_vars, intarg>>

\* the caller has the result (or the exception); the locals are gone
resolver_return ==
    /\ pc \in {"done", "raised"}
    /\ pc' = "idle"
    /\ args' = <<>>
    /\ verbose' = FALSE
    /\ parsed_args' = NoParsedArgs
    /\ idx' = 0
    /\ best_match_cnt' = 0
    /\ bestcmds' = <<>>
    /\ found' = <<>>
    /\ valid_dict' = EmptyDict
    /\ closest' = <<>>
    /\ ret' = RetNone
    /\ exc' = ""
    /\ UNCHANGED <<sigdict, cmd, frame, loader_vars, intarg>>

Next == call_validate_command \/ rank_step \/ revalidate_step \/ return_step
        \/ resolver_return

Spec == Init /\ [][Next]_vars

----------------------------------------------------------------------------
(* parse_funcsig on arbitrary raw signatures *)

\* type names of the wire data: registered argument types, other classes of
\* the module, a module, a function, and a name the module does not define
WireTypeNames == {"CephInt", "CephPoolname", "ArgumentError", "argdesc", "json",
                  "validate", "CephBogus"}
WireEntries == {WireStr(t_pool)}
               \cup {WireArg(ty, "x", <<"1">>, TRUE, <<>>) : ty \in WireTypeNames}
               \cup {[WireArg("", "x", <<"1">>, TRUE, <<>>) EXCEPT !.hastype = FALSE]}

InitLoad ==
    /\ wire \in SeqsUpTo(WireEntries, MaxSigLen)
    /\ newsig = <<>>
    /\ argnum = 0
    /\ pc = "load"
    /\ exc = ""
    /\ sigdict = <<>>
    /\ cmd = 1
    /\ args = <<>>
    /\ frame = NoFrame
    /\ verbose = FALSE
    /\ parsed_args = NoParsedArgs
    /\ idx = 0
    /\ best_match_cnt = 0
    /\ bestcmds = <<>>
    /\ found = <<>>
    /\ valid_dict = EmptyDict
    /\ closest = <<>>
    /\ ret = RetNone
    /\ intarg = NoIntArg

\* one pass of the loop of parse_funcsig, lines 592-622
load_step ==
    /\ pc = "load"
    /\ argnum < Len(wire)
    /\ LET r == parse_desc(wire[argnum + 1])
       IN  IF r.exc # ""
           THEN pc' = "raised" /\ exc' = r.exc /\ UNCHANGED newsig
           ELSE pc' = "load" /\ newsig' = Append(newsig, r.desc) /\ UNCHANGED exc
    /\ argnum' = argnum + 1
    /\ UNCHANGED <<sigdict, cmd, args, frame, resolver_vars, ret, wire, intarg>>

\* return newsig, line 623
load_return ==
    /\ pc = "load"
    /\ argnum = Len(wire)
    /\ pc' = "loaded"
    /\ UNCHANGED <<sigdict, cmd, args, frame, resolver_vars, ret, exc, loader_vars,
                   intarg>>

NextLoad == load_step \/ load_return

SpecLoad == InitLoad /\ [][NextLoad]_vars

----------------------------------------------------------------------------
(* CephInt on its own: an instance built with a range validates tokens *)

HexVal == DigitVal @@ ("a" :> 10) @@ ("b" :> 11) @@ ("c" :> 12) @@ ("d" :> 13) @@
          ("e" :> 14) @@ ("f" :> 15)

RECURSIVE hex_value(_, _)
hex_value(s, acc) ==
    IF s = <<>> THEN acc ELSE hex_value(Tail(s), 16 * acc + HexVal[Head(s)])

\* The integer a token denotes by the docstring of CephInt, line 111:
\* [+|-][0-9]+ or 0x[0-9a-f]+
denotes(s) ==
    LET dec == long(s)
        ishex == /\ Len(s) > 2
                 /\ SubSeq(s, 1, 2) = <<"0", "x">>
                 /\ \A i \in 3..Len(s) : s[i] \in DOMAIN HexVal
    IN  IF dec.exc = "" THEN [isint |-> TRUE, v |-> dec.v]
        ELSE IF ishex THEN [isint |-> TRUE, v |-> hex_value(SubSeq(s, 3, Len(s)), 0)]
        ELSE [isint |-> FALSE, v |-> 0]

RangeValues == (0 - MaxRange)..MaxRange
RangeStrings == {format_long(a) : a \in RangeValues}
                \cup {format_long(a) \o <<"|">> \o format_long(b) : a, b \in RangeValues}

IntTokens == {format_long(v) : v \in (0 - MaxRange - 1)..(MaxRange + 1)}
             \cup {<<"+", "1">>, <<"0", "x", "1">>, <<"0", "x", "f">>, t_my, <<>>}

InitInt ==
    /\ \E r \in RangeStrings :
          intarg = [range |-> r, instance |-> CephInt_init(r).inst, token |-> <<>>]
    /\ pc = "idle"
    /\ exc = ""
    /\ sigdict = <<>>
    /\ cmd = 1
    /\ args = <<>>
    /\ frame = NoFrame
    /\ verbose = FALSE
    /\ parsed_args = NoParsedArgs
    /\ idx = 0
    /\ best_match_cnt = 0
    /\ bestcmds = <<>>
    /\ found = <<>>
    /\ valid_dict = EmptyDict
    /\ closest = <<>>
    /\ ret = RetNone
    /\ LoaderIdle

\* instance.valid(token) on the instance as the last call left it
int_valid ==
    /\ \E tok \in IntTokens :
          LET r == CephInt_valid(intarg.instance, tok, FALSE)
          IN  /\ intarg' = [intarg EXCEPT !.instance = r.inst, !.token = tok]
              /\ exc' = r.exc
    /\ pc' = "validated"
    /\ UNCHANGED <<sigdict, cmd, args, frame, resolver_vars, ret, loader_vars>>

NextInt == int_valid

SpecInt == InitInt /\ [][NextInt]_vars

----------------------------------------------------------------------------
(* Properties of validate_command, under Spec *)

\* C1: in the loop over the top-scoring candidates the first candidate whose
\* strict validation succeeds wins: once a candidate has validated (found is
\* set), no later pass of the loop replaces found or the structure in
\* valid_dict, whatever the later candidate does.
C1_FirstValidWins ==
    [][(pc = "revalidate" /\ ~verbose /\ found # <<>> /\ pc' = "revalidate")
          => (valid_dict' = valid_dict /\ found' = found)]_vars

\* C2: whatever the verbose flag, a structure returned by validate_command is
\* the structure of a strict validation (partial = False) of the tokens that
\* ended without error against a signature of the table, with the caller's
\* options merged in.
C2_ReturnsStrictResult ==
    (pc = "done" /\ ~ret.isnone)
        => \E i \in 1..Len(sigdict) :
              LET f == validate(args, sigdict[i].sig, FALSE)
              IN  f.exc = "" /\ ret.d = merge_options(f.d, parsed_args)

\* Two signatures that start with the same literal prefix and then require
\* different further arguments
SharedPrefixDiverging(s1, s2) ==
    /\ Len(s1) >= 2 /\ Len(s2) >= 2
    /\ s1[1].t = "CephPrefix" /\ s2[1].t = "CephPrefix"
    /\ s1[1].instance.prefix = s2[1].instance.prefix
    /\ s1[2].req /\ s2[2].req
    /\ s1[2] # s2[2]

\* C6: for a table of two signatures that share their first literal prefix and
\* then require different arguments, and an input of that one token: both get
\* the same score, strict validation fails for both, and validate_command
\* returns None with the usage lines of both in its listing.
C6_SharedPrefixRejected ==
    (/\ pc = "done"
     /\ Len(sigdict) = 2
     /\ SharedPrefixDiverging(sigdict[1].sig, sigdict[2].sig)
     /\ args = <<sigdict[1].sig[1].instance.prefix>>)
        => /\ matchnum(args, sigdict[1].sig, TRUE).matchcnt
                = matchnum(args, sigdict[2].sig, TRUE).matchcnt
           /\ validate(args, sigdict[1].sig, FALSE).exc # ""
           /\ validate(args, sigdict[2].sig, FALSE).exc # ""
           /\ ret.isnone
           /\ \E i, j \in 1..Len(closest) :
                 /\ i # j
                 /\ closest[i] = concise_sig(sigdict[1].sig)
                 /\ closest[j] = concise_sig(sigdict[2].sig)

\* C9: no failure of the validation of a candidate, of whatever kind, leaves
\* validate_command as an exception: the call ends by returning.
C9_NeverRaises == pc # "raised"

\* the score of candidate i of the table
score(i) == matchnum(args, sigdict[i].sig, TRUE).matchcnt

\* the candidates i..n whose score is best, in table order
RECURSIVE top_scored(_, _, _)
top_scored(n, i, best) ==
    IF i > n THEN <<>>
    ELSE (IF score(i) = best THEN <<i>> ELSE <<>>) \o top_scored(n, i + 1, best)

\* C13: while the ranking loop runs and when it has ended, best_match_cnt is
\* the maximum score of the candidates scored so far (0 before any is scored)
\* and bestcmds holds exactly the scored candidates of that score, each once,
\* in the order they were scored.
C13_RankingInvariant ==
    (pc = "rank" \/ (pc = "revalidate" /\ idx = 1))
        => LET scored == IF pc = "rank" THEN idx - 1 ELSE Len(sigdict)
           IN  /\ \A i \in 1..scored : score(i) <= best_match_cnt
               /\ scored > 0 => \E i \in 1..scored : score(i) = best_match_cnt
               /\ scored = 0 => best_match_cnt = 0
               /\ bestcmds = top_scored(scored, 1, best_match_cnt)

\* the loop has ended on a table of two candidates of different scores, the
\* second the better one
C13_Witness ==
    /\ pc = "revalidate" /\ idx = 1
    /\ Len(sigdict) = 2
    /\ score(1) > 0
    /\ score(1) < score(2)
    /\ bestcmds = <<2>>

\* C14: when validate_command has ended on a non-empty token list that
\* validates strictly against at least one signature of the table, it has
\* returned a structure, not None.
C14_ResolutionComplete ==
    (/\ pc = "done"
     /\ args # <<>>
     /\ \E i \in 1..Len(sigdict) : validate(args, sigdict[i].sig, FALSE).exc = "")
        => ~ret.isnone

----------------------------------------------------------------------------
(* Properties of matchnum and validate, under SpecMatcher *)

\* C3: no step of matchnum or validate changes the stored signature or the
\* caller's token list: the command table stays as it was loaded, and no
\* descriptor of it carries a cursor (numseen) after any step.
C3_CallerStateUntouched ==
    [][/\ sigdict' = sigdict
       /\ (pc = "matcher" => args' = args)
       /\ \A j \in 1..Len(sigdict'[cmd].sig) :
             sigdict'[cmd].sig[j].numseen = NoCursor]_vars

\* a finished strict validation in which a one-or-more descriptor consumed
\* tokens on the copy
C3_Witness ==
    /\ pc = "done"
    /\ frame.fn = "validate" /\ ~frame.partial
    /\ \E j \in 1..Len(frame.mysig) :
          /\ frame.mysig[j].N
          /\ frame.mysig[j].numseen >= 2
          /\ frame.mysig[j].n # sigdict[cmd].sig[j].n

\* the example of the specification
ExampleSig == parse_funcsig(w_pool_n).sig
ExampleArgs == <<t_pool, t_mypool, t_1, t_2, t_3>>
ExampleCall ==
    /\ pc = "done"
    /\ frame.fn = "validate" /\ ~frame.partial
    /\ args = ExampleArgs
    /\ sigdict[cmd].sig = ExampleSig

\* C4 as stated: strict validation of pool mypool 1 2 3 against the example
\* signature returns prefix "pool", pool "mypool" and n the list of the strings
\* "1", "2", "3".
C4_ExampleStrings ==
    ExampleCall =>
        /\ frame.at = "return"
        /\ frame.d = dict_set(dict_set(dict_set(EmptyDict, "prefix", PyStr(t_pool)),
                                       "pool", PyStr(t_mypool)),
                              "n", PyList(<<PyStr(t_1), PyStr(t_2), PyStr(t_3)>>))

\* C4 amended: strict validation of pool mypool 1 2 3 against the example
\* signature returns prefix "pool", pool "mypool" and n the list of the
\* integers 1, 2, 3 (the values CephInt computed), one per token, in order.
C4_ExampleIntegers ==
    ExampleCall =>
        /\ frame.at = "return"
        /\ frame.words = <<>>
        /\ frame.d = dict_set(dict_set(dict_set(EmptyDict, "prefix", PyStr(t_pool)),
                                       "pool", PyStr(t_mypool)),
                              "n", PyList(<<PyLong(1), PyLong(2), PyLong(3)>>))

C4_Witness == ExampleCall /\ frame.at = "return" /\ "n" \in DOMAIN frame.d

\* the tokens descriptor j of a finished frame consumed: descriptors consume
\* left to right, so they are the numseen tokens after those of the
\* descriptors before j
RECURSIVE seen_before(_, _)
seen_before(sig, j) ==
    IF j <= 1 THEN 0
    ELSE seen_before(sig, j - 1)
         + (IF sig[j - 1].numseen > 0 THEN sig[j - 1].numseen ELSE 0)
consumed(f, a, j) ==
    SubSeq(a, seen_before(f.mysig, j) + 1, seen_before(f.mysig, j) + f.mysig[j].numseen)

\* the value a validated token stands for: the integer for CephInt, the token
\* itself for the string types
token_value(t, tok) == IF t = "CephInt" THEN PyLong(long(tok).v) ELSE PyStr(tok)

\* the tokens matched by the literal-prefix descriptors named name, in order
RECURSIVE prefix_tokens(_, _, _, _)
prefix_tokens(f, a, name, j) ==
    IF j > Len(f.mysig) THEN <<>>
    ELSE (IF f.mysig[j].t = "CephPrefix" /\ f.mysig[j].name = name /\ f.mysig[j].numseen > 0
          THEN consumed(f, a, j) ELSE <<>>)
         \o prefix_tokens(f, a, name, j + 1)

StrictSuccess ==
    pc = "done" /\ frame.fn = "validate" /\ ~frame.partial /\ frame.at = "return"

\* C5: in the structure of a successful strict validation, the literal-prefix
\* descriptors of one name give one string, their matched tokens joined by
\* single spaces in matching order, and a one-or-more descriptor gives the
\* list of the values of the tokens it consumed, in input order, one element
\* per token.
C5_Accumulation ==
    StrictSuccess =>
        \A j \in 1..Len(frame.mysig) :
           LET desc == frame.mysig[j]
           IN  /\ (desc.t = "CephPrefix" /\ ~desc.N /\ desc.numseen > 0)
                     => /\ desc.name \in DOMAIN frame.d
                        /\ frame.d[desc.name]
                              = PyStr(join(<<" ">>, prefix_tokens(frame, args, desc.name, 1)))
               /\ (desc.N /\ desc.numseen > 0)
                     => /\ desc.name \in DOMAIN frame.d
                        /\ frame.d[desc.name]
                              = PyList([i \in 1..desc.numseen |->
                                          token_value(desc.t, consumed(frame, args, j)[i])])

\* two prefixes joined and a list of two different integers
C5_Witness ==
    /\ StrictSuccess
    /\ "prefix" \in DOMAIN frame.d /\ "ids" \in DOMAIN frame.d
    /\ frame.d["prefix"].s = t_pool \o <<" ">> \o t_mypool
    /\ Len(frame.d["ids"].l) >= 2
    /\ frame.d["ids"].l[1] # frame.d["ids"].l[2]

\* C10: a step of strict validation raises ArgumentNumber exactly when the
\* tokens have run out at a required descriptor that has consumed fewer tokens
\* than it needs (none for one-or-more, fewer than n for an exact count); at an
\* optional descriptor, or at a required one-or-more descriptor that has
\* consumed a token, running out of tokens raises nothing.
C10_CardinalityError ==
    [][(pc = "matcher" /\ frame.fn = "validate" /\ ~frame.partial)
          => LET ranout == frame.at = "while" /\ frame.words = <<>>
                 desc == frame.mysig[frame.di]
                 needs == IF desc.N THEN 1 ELSE desc.n
             IN  /\ (frame'.exc = "ArgumentNumber")
                        <=> (ranout /\ desc.req /\ desc.numseen < needs)
                 /\ (ranout /\ ~(desc.req /\ desc.numseen < needs))
                        => frame'.at # "raise"]_vars

\* the tokens ran out at an exact-count descriptor that had consumed one of two
C10_Witness ==
    /\ pc = "done"
    /\ frame.fn = "validate" /\ ~frame.partial
    /\ frame.exc = "ArgumentNumber"
    /\ frame.words = <<>>
    /\ ~frame.mysig[frame.di].N
    /\ frame.mysig[frame.di].numseen = 1

\* C11: a step of strict validation at an optional descriptor that has consumed
\* no token, when the tokens have run out or the next token fails its
\* validation, raises nothing and moves on to the following descriptor with the
\* token list and the structure unchanged (the failed token is the next one
\* offered); a strict validation that succeeds has no key for the name of an
\* optional descriptor that consumed nothing (unless another descriptor of
\* that name consumed a token); and "pool mypool" against the example
\* signature succeeds with the keys prefix and pool and no key n.
C11_OptionalOmitted ==
    [][/\ (/\ pc = "matcher" /\ frame.fn = "validate" /\ ~frame.partial
           /\ frame.at = "while"
           /\ ~frame.mysig[frame.di].req
           /\ frame.mysig[frame.di].numseen = 0
           /\ frame.mysig[frame.di].numseen < frame.mysig[frame.di].n
           /\ \/ frame.words = <<>>
              \/ validate_one(Head(frame.words), frame.mysig[frame.di], FALSE).exc # "")
          => /\ frame'.at = "for"
             /\ frame'.exc = ""
             /\ frame'.di = frame.di + 1
             /\ frame'.words = frame.words
             /\ frame'.d = frame.d
       /\ (/\ pc' = "done" /\ frame'.fn = "validate" /\ ~frame'.partial
           /\ frame'.at = "return")
          => \A j \in 1..Len(frame'.mysig) :
                (/\ ~frame'.mysig[j].req
                 /\ frame'.mysig[j].numseen = 0
                 /\ \A k \in 1..Len(frame'.mysig) :
                       frame'.mysig[k].name = frame'.mysig[j].name
                          => frame'.mysig[k].numseen = 0)
                   => frame'.mysig[j].name \notin DOMAIN frame'.d
       /\ (/\ pc' = "done" /\ frame'.fn = "validate" /\ ~frame'.partial
           /\ sigdict'[cmd'].sig = ExampleSig
           /\ args' = <<t_pool, t_mypool>>)
          => /\ frame'.at = "return"
             /\ frame'.d = dict_set(dict_set(EmptyDict, "prefix", PyStr(t_pool)),
                                    "pool", PyStr(t_mypool))]_vars

\* a strict validation that succeeded with every token consumed, in which an
\* optional descriptor took nothing and handed its token to the next descriptor
C11_Witness ==
    /\ StrictSuccess
    /\ frame.words = <<>>
    /\ \E j \in 1..(Len(frame.mysig) - 1) :
          /\ ~frame.mysig[j].req
          /\ frame.mysig[j].numseen = 0
          /\ frame.mysig[j + 1].numseen > 0
          /\ frame.mysig[j].name \notin DOMAIN frame.d


\* the required descriptors of a finished frame whose cardinality is met: at
\* least one validated token for one-or-more, n validated tokens for an exact
\* count n
satisfied_required(f) ==
    {j \in 1..Len(f.mysig) :
        /\ f.mysig[j].req
        /\ IF f.mysig[j].N THEN f.mysig[j].numseen >= 1
           ELSE f.mysig[j].numseen >= f.mysig[j].n}

\* C12: when matchnum has stopped, its result is the number of required
\* descriptors whose cardinality was met (n validated tokens for an exact
\* count, at least one for one-or-more); optional descriptors add nothing.
C12_ScoreCountsSatisfied ==
    (pc = "done" /\ frame.fn = "matchnum")
        => frame.matchcnt = Cardinality(satisfied_required(frame))

\* C15: a strict validation that returns a structure has consumed every token
\* of the input: none is left over, and the descriptors together validated as
\* many tokens as the input has.
C15_AllTokensConsumed ==
    StrictSuccess =>
        /\ frame.words = <<>>
        /\ seen_before(frame.mysig, Len(frame.mysig) + 1) = Len(args)

\* C16: every call of matchnum or validate ends, and while it runs the number
\* of passes through the body of the inner while loop is at most the number
\* of tokens plus the number of descriptors.
C16_Terminates ==
    /\ [](pc \in {"matcher", "done"}
            => frame.iters <= Len(args) + Len(frame.mysig))
    /\ (pc = "matcher") ~> (pc = "done")

\* a finished call in which a one-or-more descriptor consumed three tokens,
\* its count being raised after each
C16_Witness ==
    /\ pc = "done"
    /\ \E j \in 1..Len(frame.mysig) :
          /\ frame.mysig[j].N
          /\ frame.mysig[j].numseen = 3
          /\ frame.mysig[j].n = 4
    /\ frame.iters = Len(args) + 1

----------------------------------------------------------------------------
(* Properties of parse_funcsig, under SpecLoad, and of CephInt, under SpecInt *)

\* entry i of the raw signature names a type that is no argument type
Unregistered(i) ==
    wire[i].kind = "dict" /\ wire[i].hastype /\ wire[i].type \notin ArgTypeNames

\* C7: loading a raw signature in which an entry names a type that is not a
\* registered argument type ends with JsonFormat and with no other exception,
\* returns no signature, and builds no descriptor from that entry.
C7_UnknownTypeRejected ==
    (pc \in {"loaded", "raised"} /\ \E i \in 1..Len(wire) : Unregistered(i))
        => /\ pc = "raised"
           /\ exc = "JsonFormat"
           /\ \A i \in 1..Len(wire) : Unregistered(i) => Len(newsig) < i

\* C8: for a CephInt built with a range [min] or [min,max], a token that
\* denotes an integer inside the range validates and stores that integer, and
\* a token that denotes an integer outside the range raises ArgumentValid and
\* leaves the stored value as it was.
C8_RangeChecked ==
    [][LET den == denotes(intarg'.token)
           rg == intarg.instance.range
           inside == /\ den.v >= rg[1]
                     /\ (Len(rg) = 2 => den.v <= rg[2])
       IN  (den.isint /\ Len(rg) \in {1, 2})
              => IF inside
                 THEN exc' = "" /\ intarg'.instance.val = PyLong(den.v)
                 ELSE /\ exc' = "ArgumentValid"
                      /\ intarg'.instance.val = intarg.instance.val]_vars

====
